---------------------------- MODULE Spec2Model ----------------------------
(***************************************************************************)
(* The Manicminter contract (src/manicminter/lib.rs) together with the     *)
(* Oxygen PSP22 token it mints from (src/oxygen/lib.rs).                   *)
(*                                                                         *)
(* One step of the model is one whole message invocation: the value        *)
(* transfer a payable message receives at entry, the message body, the     *)
(* cross-contract call it makes, and the commit or revert that follows     *)
(* from the returned Result.                                               *)
(***************************************************************************)
EXTENDS Integers, Sequences, FiniteSets, TLC

VARIABLES
    manicminter,   \* storage of Manicminter: [owner, token_contract, price]
    oxygen,        \* storage of Oxygen: [balances, supply, owner]
    free_balance,  \* native value held by every account
    deployed,      \* the constructor's caller and argument, and the owner's last price
    last           \* the most recent invocation and what it returned

vars == <<manicminter, oxygen, free_balance, deployed, last>>

(***************************************************************************)
(* Bounds.  Balance is u128 in the code; the model keeps BalanceBits bits. *)
(***************************************************************************)
BalanceBits == 3
InitFunds == 1
MaxAmount == 2

BalanceMax == 2^BalanceBits - 1
Balance == 0..BalanceMax

Users == {"alice", "bob"}
GatewayAddr == "manicminter"
LedgerAddr == "oxygen"
Holders == Users \cup {GatewayAddr, LedgerAddr}

Amounts == 0..MaxAmount
Prices == {0, 1, BalanceMax}

\* Oxygen is deployed with a supply that leaves room for MaxAmount more units
InitialSupply == BalanceMax - MaxAmount

\* Option::None of checked_mul
None == -1

Error == {"BadMintValue", "ContractNotSet", "NotOwner", "Overflow", "TransactionFailed"}

zero_address == "0x0000000000000000000000000000000000000000000000000000000000000000"

(***************************************************************************)
(* Balance::checked_mul                                                    *)
(***************************************************************************)
wrapping_mul(a, b) == (a * b) % (BalanceMax + 1)

checked_mul(a, b) == IF a * b > BalanceMax THEN None ELSE a * b

(***************************************************************************)
(* Constructors.                                                           *)
(***************************************************************************)
new_swapped(caller, contract_account) ==
    [owner |-> contract_account, token_contract |-> caller, price |-> 0]

new(caller, contract_account) ==
    [owner |-> caller, token_contract |-> contract_account, price |-> 0]

oxygen_new(caller, initial_supply) ==
    [balances |-> [u \in Users |-> IF u = caller THEN initial_supply ELSE 0],
     supply   |-> initial_supply,
     owner    |-> caller]

(***************************************************************************)
(* PSP22Mintable::mint of Oxygen, as the implementation macro derives it:  *)
(* the recipient's balance and the total supply grow by amount; an         *)
(* arithmetic overflow aborts the callee.                                  *)
(***************************************************************************)
PSP22Mintable_mint(token, account, amount) ==
    IF \/ token.balances[account] + amount > BalanceMax
       \/ token.supply + amount > BalanceMax
    THEN [trapped |-> TRUE, token |-> token]
    ELSE [trapped |-> FALSE,
          token   |-> [token EXCEPT !.balances[account] = @ + amount,
                                    !.supply = @ + amount]]

(***************************************************************************)
(* The contract at token_contract, called with the selector of             *)
(* PSP22Mintable::mint.  Oxygen completes the credit; the caller can also  *)
(* see the callee return Err(PSP22Error) (the message then reverts the     *)
(* callee), fail to read its input (LangError), or trap, which is also     *)
(* how exhausting the gas limit of the call shows.  An address that holds  *)
(* no contract cannot be called.  The output is the SCALE encoding of the  *)
(* callee's MessageResult<Result<(), PSP22Error>>.                         *)
(***************************************************************************)
Replies == {"completes", "declares_failure", "lang_error", "traps"}

callee(call, token, reply) ==
    LET done == PSP22Mintable_mint(token, call.args[1], call.args[2])
        failed(outcome, code, output) ==
            [outcome |-> outcome, code |-> code, output |-> output,
             token |-> token, moved |-> 0]
    IN  CASE call.callee # LedgerAddr -> failed("traps", "NotCallable", <<>>)
          [] reply = "completes" ->
                IF done.trapped
                THEN failed("traps", "CalleeTrapped", <<>>)
                ELSE [outcome |-> "completes", code |-> "Success", output |-> <<0, 0>>,
                      token |-> done.token, moved |-> call.transferred_value]
          [] reply = "declares_failure" ->
                failed("declares_failure", "CalleeReverted", <<0, 1, 0, 0>>)
          [] reply = "lang_error" ->
                failed("lang_error", "CalleeReverted", <<1, 1>>)
          [] OTHER -> failed("traps", "CalleeTrapped", <<>>)

(***************************************************************************)
(* .returns::<()>(): the output is decoded as MessageResult<()>, that is   *)
(* Result<(), LangError>.  Decoding reads the bytes it needs and ignores   *)
(* what follows them.                                                      *)
(***************************************************************************)
returns_unit(output) ==
    IF Len(output) >= 1 /\ output[1] = 0 THEN "Ok(Ok(()))"
    ELSE IF Len(output) >= 2 /\ output[1] = 1 /\ output[2] = 1 THEN "Ok(Err(LangError))"
    ELSE "Err(Decode)"

(***************************************************************************)
(* build_call ... try_invoke: the call as built, and its outcome.  No      *)
(* transferred_value is set on the builder, so the call carries none.      *)
(***************************************************************************)
build_call_forwarding(self, caller, amount, transferred_value) ==
    [callee            |-> self.token_contract,
     gas_limit         |-> "5000000000",
     selector          |-> "PSP22Mintable::mint",
     args              |-> <<caller, amount>>,
     transferred_value |-> transferred_value]

build_call(self, caller, amount, transferred_value) ==
    [callee            |-> self.token_contract,
     gas_limit         |-> "5000000000",
     selector          |-> "PSP22Mintable::mint",
     args              |-> <<caller, amount>>,
     transferred_value |-> 0]

try_invoke(call, token, reply) ==
    LET r == callee(call, token, reply)
    IN  [mint_result |-> IF r.code \in {"Success", "CalleeReverted"}
                         THEN returns_unit(r.output)
                         ELSE "Err(" \o r.code \o ")",
         token       |-> r.token,
         moved       |-> r.moved,
         outcome     |-> r.outcome]

(***************************************************************************)
(* impl Minting for Manicminter                                            *)
(***************************************************************************)
NoCall(token) ==
    [mint_result |-> "none", token |-> token, moved |-> 0, outcome |-> "none"]

MintReturn(result, calls, inv) ==
    [result |-> result, calls |-> calls, token |-> inv.token, moved |-> inv.moved,
     outcome |-> inv.outcome]

manic_mint_unguarded(self, caller, transferred_value, amount, token, reply) ==
    LET value == checked_mul(self.price, amount)
        call  == build_call(self, caller, amount, transferred_value)
        inv   == try_invoke(call, token, reply)
    IN  IF value = None THEN MintReturn("Overflow", <<>>, NoCall(token))
        ELSE IF ~(transferred_value >= value)
        THEN MintReturn("TransactionFailed", <<>>, NoCall(token))
        ELSE IF inv.mint_result = "Ok(Ok(()))"
        THEN MintReturn("Ok", <<call>>, inv)
        ELSE MintReturn("TransactionFailed", <<call>>, inv)

manic_mint_unpaid(self, caller, transferred_value, amount, token, reply) ==
    LET value == checked_mul(self.price, amount)
        call  == build_call(self, caller, amount, transferred_value)
        inv   == try_invoke(call, token, reply)
    IN  IF ~(self.token_contract # zero_address)
        THEN MintReturn("ContractNotSet", <<>>, NoCall(token))
        ELSE IF value = None THEN MintReturn("Overflow", <<>>, NoCall(token))
        ELSE IF inv.mint_result = "Ok(Ok(()))"
        THEN MintReturn("Ok", <<call>>, inv)
        ELSE MintReturn("TransactionFailed", <<call>>, inv)

manic_mint_bad_value(self, caller, transferred_value, amount, token, reply) ==
    LET value == checked_mul(self.price, amount)
        call  == build_call(self, caller, amount, transferred_value)
        inv   == try_invoke(call, token, reply)
    IN  IF ~(self.token_contract # zero_address)
        THEN MintReturn("ContractNotSet", <<>>, NoCall(token))
        ELSE IF amount = 0 THEN MintReturn("BadMintValue", <<>>, NoCall(token))
        ELSE IF value = None THEN MintReturn("Overflow", <<>>, NoCall(token))
        ELSE IF ~(transferred_value >= value)
        THEN MintReturn("TransactionFailed", <<>>, NoCall(token))
        ELSE IF inv.mint_result = "Ok(Ok(()))"
        THEN MintReturn("Ok", <<call>>, inv)
        ELSE MintReturn("TransactionFailed", <<call>>, inv)

manic_mint(self, caller, transferred_value, amount, token, reply) ==
    LET value == checked_mul(self.price, amount)
        call  == build_call(self, caller, amount, transferred_value)
        inv   == try_invoke(call, token, reply)
    IN  IF ~(self.token_contract # zero_address)
        THEN MintReturn("ContractNotSet", <<>>, NoCall(token))
        ELSE IF value = None THEN MintReturn("Overflow", <<>>, NoCall(token))
        ELSE IF ~(transferred_value >= value)
        THEN MintReturn("TransactionFailed", <<>>, NoCall(token))
        ELSE IF inv.mint_result = "Ok(Ok(()))"
        THEN MintReturn("Ok", <<call>>, inv)
        ELSE MintReturn("TransactionFailed", <<call>>, inv)

set_price_unchecked(self, caller, new_price) ==
    [result |-> "Ok", self |-> [self EXCEPT !.price = new_price]]

set_price_unwritten(self, caller, new_price) ==
    IF ~(caller = self.owner)
    THEN [result |-> "NotOwner", self |-> self]
    ELSE [result |-> "Ok", self |-> self]

set_price(self, caller, new_price) ==
    IF ~(caller = self.owner)
    THEN [result |-> "NotOwner", self |-> self]
    ELSE [result |-> "Ok", self |-> [self EXCEPT !.price = new_price]]

get_price(self) == self.price

(***************************************************************************)
(* What the #[ink(message)] attribute adds around a message body.  A       *)
(* payable message has received its transferred value when the body        *)
(* starts; a message that returns Err is reverted: storage, the value it   *)
(* received and everything its calls did go back to what they were.        *)
(* set_price and get_price are not payable and are called without value.   *)
(***************************************************************************)
transfer(free, from, to, value) ==
    IF from = to THEN free
    ELSE [free EXCEPT ![from] = @ - value, ![to] = @ + value]

is_reverted_never(result) == FALSE

is_reverted(result) == result \in Error

Called(op, caller, arg, value, outcome, result, ret, calls) ==
    [op |-> op, caller |-> caller, arg |-> arg, value |-> value, outcome |-> outcome,
     result |-> result, ret |-> ret, calls |-> calls]

Init ==
    \E creator \in Users, contract_account \in {zero_address, LedgerAddr} :
        /\ manicminter = new(creator, contract_account)
        /\ oxygen = oxygen_new(creator, InitialSupply)
        /\ free_balance = [h \in Holders |-> IF h \in Users THEN InitFunds ELSE 0]
        /\ deployed = [creator |-> creator, contract_account |-> contract_account,
                       owner_price |-> 0]
        /\ last = Called("new", creator, 0, 0, "none", "Ok", 0, <<>>)

Mint ==
    \E caller \in Users, amount \in Amounts, reply \in Replies :
    \E transferred_value \in 0..free_balance[caller] :
        LET entered == transfer(free_balance, caller, GatewayAddr, transferred_value)
            out == manic_mint(manicminter, caller, transferred_value, amount,
                              oxygen, reply)
            rev == is_reverted(out.result)
        IN  /\ oxygen' = IF rev THEN oxygen ELSE out.token
            /\ free_balance' = IF rev THEN free_balance
                               ELSE transfer(entered, GatewayAddr,
                                             manicminter.token_contract, out.moved)
            /\ last' = Called("manic_mint", caller, amount, transferred_value,
                              out.outcome, out.result, 0, out.calls)
            /\ UNCHANGED <<manicminter, deployed>>

SetPrice ==
    \E caller \in Users, new_price \in Prices :
        LET out == set_price(manicminter, caller, new_price)
            rev == is_reverted(out.result)
        IN  /\ manicminter' = IF rev THEN manicminter ELSE out.self
            /\ deployed' = [deployed EXCEPT !.owner_price =
                               IF caller = deployed.creator THEN new_price ELSE @]
            /\ last' = Called("set_price", caller, new_price, 0, "none",
                              out.result, 0, <<>>)
            /\ UNCHANGED <<oxygen, free_balance>>

GetPrice ==
    \E caller \in Users :
        /\ last' = Called("get_price", caller, 0, 0, "none", "Ok",
                          get_price(manicminter), <<>>)
        /\ UNCHANGED <<manicminter, oxygen, free_balance, deployed>>

Next == Mint \/ SetPrice \/ GetPrice

Spec == Init /\ [][Next]_vars

(***************************************************************************)
(* Properties.                                                             *)
(***************************************************************************)
IsMint == last.op = "manic_mint"
IsSetPrice == last.op = "set_price"
LedgerSet == manicminter.token_contract # zero_address
\* manic_mint leaves price alone, so after a manic_mint this is the product it computed
Required == manicminter.price * last.arg

\* C1: a Manicminter constructed with the zero address answers every manic_mint,
\* whatever the caller, amount and payment (overflowing products included), with
\* ContractNotSet, calls nothing, credits nothing, and keeps the zero address.
C1_NullLedgerBlocksMint ==
    deployed.contract_account = zero_address =>
        /\ manicminter.token_contract = zero_address
        /\ oxygen = oxygen_new(deployed.creator, InitialSupply)
        /\ IsMint => last.result = "ContractNotSet" /\ last.calls = <<>>

C1_Witness ==
    /\ deployed.contract_account = zero_address
    /\ IsMint /\ Required > BalanceMax /\ last.value > 0
    /\ last.result = "ContractNotSet"

\* C2 as stated: whenever price * amount overflows, manic_mint returns Overflow,
\* whatever the payment.
C2_OverflowAlways ==
    IsMint /\ Required > BalanceMax => last.result = "Overflow"

\* C2 amended: with token_contract set, whenever price * amount overflows,
\* manic_mint returns Overflow whatever the payment, and makes no call.
C2_OverflowWhenLedgerSet ==
    IsMint /\ LedgerSet /\ Required > BalanceMax =>
        last.result = "Overflow" /\ last.calls = <<>>

C2_Witness ==
    /\ IsMint /\ LedgerSet /\ Required > BalanceMax
    /\ last.value > 0 /\ last.result = "Overflow"

\* C3: with token_contract set and a product that does not overflow, a payment
\* below price * amount makes manic_mint return TransactionFailed without calling
\* the token contract.
C3_InsufficientPayment ==
    IsMint /\ LedgerSet /\ Required <= BalanceMax /\ last.value < Required =>
        last.result = "TransactionFailed" /\ last.calls = <<>> /\ last.outcome = "none"

C3_Witness ==
    /\ IsMint /\ LedgerSet /\ Required <= BalanceMax
    /\ 0 < last.value /\ last.value < Required
    /\ last.result = "TransactionFailed"

\* C4: set_price by anyone but the constructor's caller returns NotOwner and
\* leaves price, owner and token_contract as they were, so get_price answers
\* what it answered before.
C4_NonOwnerSetPrice ==
    [][(last'.op = "set_price" /\ last'.caller # deployed.creator) =>
          /\ last'.result = "NotOwner"
          /\ manicminter' = manicminter
          /\ get_price(manicminter') = get_price(manicminter)]_vars

C4_Witness ==
    /\ IsSetPrice /\ last.caller # deployed.creator
    /\ last.result = "NotOwner"
    /\ manicminter.price # 0 /\ last.arg # manicminter.price

\* C5: the price is always the argument of the owner's latest set_price, 0 if
\* there was none; get_price returns it; the owner's set_price succeeds and
\* installs its argument.
C5_PriceIsOwnersLatest ==
    /\ get_price(manicminter) = deployed.owner_price
    /\ last.op = "get_price" => last.ret = deployed.owner_price
    /\ (IsSetPrice /\ last.caller = deployed.creator) =>
           last.result = "Ok" /\ get_price(manicminter) = last.arg

C5_Witness ==
    /\ last.op = "get_price" /\ last.ret # 0
    /\ last.caller # deployed.creator
    /\ free_balance[GatewayAddr] > 0

\* C6: with token_contract set, no overflow and payment >= price * amount,
\* manic_mint makes exactly one call, mint(caller, amount) on token_contract, and
\* returns Ok exactly when the token contract completed it; every failure of
\* the call, dispatch or declared, gives TransactionFailed.
C6_MintSucceedsIffLedgerCompletes ==
    IsMint /\ LedgerSet /\ Required <= BalanceMax /\ last.value >= Required =>
        /\ Len(last.calls) = 1
        /\ last.calls[1].callee = manicminter.token_contract
        /\ last.calls[1].args = <<last.caller, last.arg>>
        /\ last.result = "Ok" <=> last.outcome = "completes"
        /\ last.outcome # "completes" => last.result = "TransactionFailed"

\* C7: a manic_mint or set_price that returns an error leaves everything as it
\* was: the Manicminter storage, every account's value, the token balances.
C7_ErrorsLeaveNoTrace ==
    [][last'.result \in Error =>
          /\ manicminter' = manicminter
          /\ free_balance' = free_balance
          /\ oxygen' = oxygen]_vars

C7_Witness ==
    /\ IsMint /\ last.result = "TransactionFailed"
    /\ Len(last.calls) = 1 /\ last.value > 0

\* C8 as stated: whatever manic_mint returns, the payment has left the caller and
\* is held by the Manicminter, and nothing reached the token contract.
C8_PaymentStaysWithGateway ==
    [][last'.op = "manic_mint" =>
          /\ free_balance'[GatewayAddr] = free_balance[GatewayAddr] + last'.value
          /\ free_balance'[last'.caller] = free_balance[last'.caller] - last'.value
          /\ free_balance'[LedgerAddr] = free_balance[LedgerAddr]]_vars

\* C8 amended: the call to the token contract carries no value and the token
\* contract receives none; a manic_mint that returns Ok leaves the whole
\* payment, overpayment included, with the Manicminter; one that returns an
\* error leaves every account's value as it was before the call.
C8_PaymentKeptOnSuccessOnly ==
    [][last'.op = "manic_mint" =>
          /\ \A i \in 1..Len(last'.calls) : last'.calls[i].transferred_value = 0
          /\ free_balance'[LedgerAddr] = free_balance[LedgerAddr]
          /\ IF last'.result = "Ok"
             THEN /\ free_balance'[GatewayAddr] =
                        free_balance[GatewayAddr] + last'.value
                  /\ free_balance'[last'.caller] =
                        free_balance[last'.caller] - last'.value
             ELSE free_balance' = free_balance]_vars

C8_Witness ==
    /\ IsMint /\ last.result \in Error /\ last.value > 0
    /\ free_balance[GatewayAddr] > 0
    /\ free_balance[last.caller] = InitFunds

\* C9: owner is the constructor's caller and token_contract the constructor's
\* argument, in every reachable state.
C9_OwnerAndLedgerFixed ==
    /\ manicminter.owner = deployed.creator
    /\ manicminter.token_contract = deployed.contract_account

C9_Witness ==
    /\ IsSetPrice /\ last.result = "Ok" /\ last.arg = 0
    /\ free_balance[GatewayAddr] > 0
    /\ oxygen.supply > InitialSupply

\* C10: manic_mint returns Ok, ContractNotSet, Overflow or TransactionFailed,
\* set_price returns Ok or NotOwner, and an amount of 0 passes every check of
\* manic_mint up to the call.
C10_ResultsInRange ==
    /\ IsMint => last.result \in {"Ok", "ContractNotSet", "Overflow", "TransactionFailed"}
    /\ IsSetPrice => last.result \in {"Ok", "NotOwner"}
    /\ (IsMint /\ LedgerSet /\ last.arg = 0) => Len(last.calls) = 1

C10_Witness ==
    /\ IsMint /\ LedgerSet /\ last.arg = 0
    /\ last.result = "Ok" /\ manicminter.price = BalanceMax
=============================================================================
